---------------------------- MODULE Spec2Model ----------------------------
(***************************************************************************)
(* The numeric analysis engine of stats-visualizer: input validation and   *)
(* parsing (utils/validation.ts), dataset cleaning (utils/validation.ts)   *)
(* and the descriptive statistics (calculateMean .. calculateDescriptive-  *)
(* Stats), the histogram (components/Histogram.tsx) and the kernel density *)
(* estimate (utils/kde).                                                   *)
(*                                                                         *)
(* JavaScript numbers are IEEE-754 binary floating point.  The model keeps *)
(* the format and scales its width down: a finite value is an integer      *)
(* count of the smallest representable step, a significand holds Precision *)
(* bits, the largest exponent is MaxExp, every arithmetic result is the    *)
(* exact result rounded to nearest (ties to even), a result above the      *)
(* largest finite value is an infinity, and NaN propagates as in IEEE-754. *)
(* The sign of zero is not modelled (no modelled code reads it).           *)
(***************************************************************************)
EXTENDS Integers, Sequences, FiniteSets, TLC

VARIABLES input, data, call, history, state, before

vars == <<input, data, call, history, state, before>>

---------------------------------------------------------------------------
(* Bounds of the model *)

\* bits of a significand (binary64: 53)
Precision == 6
\* largest exponent of a finite value, counted in steps of the smallest one
MaxExp == 10
\* the value 1.0 is 2^FracBits steps
FracBits == 2
\* longest enumerated dataset
MaxLen == 3
\* longest enumerated input text
MaxStrLen == 4

---------------------------------------------------------------------------
(* IEEE-754 numbers *)

One == 2 ^ FracBits
MaxUnits == (2 ^ Precision - 1) * 2 ^ MaxExp

NaN == [k |-> "nan", v |-> 0]
PosInf == [k |-> "inf", v |-> 1]
NegInf == [k |-> "inf", v |-> -1]
Fin(n) == [k |-> "num", v |-> n]
Zero == Fin(0)
MAX_VALUE == Fin(MaxUnits)

isNaN(x) == x.k = "nan"
isFinite(x) == x.k = "num"
IsInf(x) == x.k = "inf"

AbsInt(n) == IF n < 0 THEN -n ELSE n
SignInt(n) == IF n < 0 THEN -1 ELSE 1

\* number of low bits a magnitude q loses to fit a significand
RECURSIVE ExpOf(_)
ExpOf(q) == IF q < 2 ^ Precision THEN 0 ELSE 1 + ExpOf(q \div 2)

\* the magnitude n/d (n >= 0, d > 0) rounded to nearest, ties to even
RoundMag(n, d) ==
  LET u == 2 ^ ExpOf(n \div d)
      m == n \div (d * u)
      rem == n - m * d * u
      r == IF 2 * rem > d * u \/ (2 * rem = d * u /\ m % 2 = 1) THEN m + 1 ELSE m
  IN  r * u

\* the rational num/den (den > 0), in steps, as a number
Round(num, den) ==
  LET mag == RoundMag(AbsInt(num), den)
  IN  IF mag > MaxUnits
        THEN (IF num < 0 THEN NegInf ELSE PosInf)
        ELSE Fin(SignInt(num) * mag)

\* the number n (an integer literal of the source)
Num(n) == Round(n * One, 1)

Neg(x) == IF isNaN(x) THEN NaN ELSE [k |-> x.k, v |-> -x.v]

Add(a, b) ==
  IF isNaN(a) \/ isNaN(b) THEN NaN
  ELSE IF IsInf(a) /\ IsInf(b) THEN (IF a.v = b.v THEN a ELSE NaN)
  ELSE IF IsInf(a) THEN a
  ELSE IF IsInf(b) THEN b
  ELSE Round(a.v + b.v, 1)

Sub(a, b) == Add(a, Neg(b))

Mul(a, b) ==
  IF isNaN(a) \/ isNaN(b) THEN NaN
  ELSE IF IsInf(a) \/ IsInf(b)
    THEN (IF a.v = 0 \/ b.v = 0 THEN NaN
          ELSE IF SignInt(a.v) = SignInt(b.v) THEN PosInf ELSE NegInf)
  ELSE IF a.v # 0 /\ AbsInt(b.v) > (2 * MaxUnits * One) \div AbsInt(a.v)
    \* the product is beyond twice the largest finite value
    THEN (IF SignInt(a.v) = SignInt(b.v) THEN PosInf ELSE NegInf)
  ELSE Round(a.v * b.v, One)

Div(a, b) ==
  IF isNaN(a) \/ isNaN(b) THEN NaN
  ELSE IF IsInf(a) /\ IsInf(b) THEN NaN
  ELSE IF IsInf(a) THEN (IF SignInt(a.v) = SignInt(b.v) THEN PosInf ELSE NegInf)
  ELSE IF IsInf(b) THEN Zero
  ELSE IF b.v = 0
    THEN (IF a.v = 0 THEN NaN ELSE IF a.v > 0 THEN PosInf ELSE NegInf)
  ELSE Round(SignInt(b.v) * a.v * One, AbsInt(b.v))

\* Math.floor, and the integer a whole number stands for
MathFloor(x) == IF isFinite(x) THEN Fin((x.v \div One) * One) ELSE x
MathCeil(x) == IF isFinite(x) THEN Fin(-(((-x.v) \div One) * One)) ELSE x
IntOf(x) == x.v \div One

MathAbs(x) == IF isNaN(x) THEN NaN ELSE [k |-> x.k, v |-> AbsInt(x.v)]

\* position on the extended real line (NaN excluded)
Ord(x) == IF IsInf(x) THEN x.v * (MaxUnits + 1) ELSE x.v

Lt(a, b) == ~isNaN(a) /\ ~isNaN(b) /\ Ord(a) < Ord(b)
Le(a, b) == ~isNaN(a) /\ ~isNaN(b) /\ Ord(a) <= Ord(b)
Ge(a, b) == Le(b, a)
StrictEq(a, b) == ~isNaN(a) /\ ~isNaN(b) /\ a = b

\* the largest integer whose square is at most n, searched in lo..hi
RECURSIVE ISqrt(_, _, _)
ISqrt(n, lo, hi) ==
  IF lo >= hi THEN lo
  ELSE LET mid == (lo + hi + 1) \div 2
       IN  IF mid * mid <= n THEN ISqrt(n, mid, hi) ELSE ISqrt(n, lo, mid - 1)

\* the nonnegative number nearest to the square root of n (a count of steps^2)
SqrtMag(n) ==
  LET f == ISqrt(n, 0, 2 ^ ((Precision + MaxExp + FracBits) \div 2 + 1))
      u == 2 ^ ExpOf(f)
      lo == (f \div u) * u
      hi == lo + u
  IN  IF lo * lo = n THEN lo
      ELSE IF 4 * n > (lo + hi) * (lo + hi) THEN hi
      ELSE IF 4 * n < (lo + hi) * (lo + hi) THEN lo
      ELSE IF (lo \div u) % 2 = 0 THEN lo ELSE hi

MathSqrt(x) ==
  IF isNaN(x) THEN NaN
  ELSE IF IsInf(x) THEN (IF x.v > 0 THEN PosInf ELSE NaN)
  ELSE IF x.v < 0 THEN NaN
  ELSE LET r == SqrtMag(x.v * One)
       IN  IF r > MaxUnits THEN PosInf ELSE Fin(r)

---------------------------------------------------------------------------
(* Text: a string is a sequence of characters; a literal of the source is   *)
(* kept as one piece.                                                      *)

FWCOMMA == "U+FF0C"
FWSEMI == "U+FF1B"
Digits == {"0", "1", "2", "3", "4", "5", "6", "7", "8", "9"}
WhiteSpace == {" ", "\t", "\n"}

DigitVal(c) ==
  CASE c = "0" -> 0 [] c = "1" -> 1 [] c = "2" -> 2 [] c = "3" -> 3
    [] c = "4" -> 4 [] c = "5" -> 5 [] c = "6" -> 6 [] c = "7" -> 7
    [] c = "8" -> 8 [] c = "9" -> 9

\* the character class of /[,;\s\n\t]+/
Delimiters == {",", ";"} \cup WhiteSpace
IsDelimiter(c) == c \in Delimiters

RECURSIVE DropWhile(_, _)
DropWhile(s, set) ==
  IF s # <<>> /\ Head(s) \in set THEN DropWhile(Tail(s), set) ELSE s

RECURSIVE TakeWhile(_, _)
TakeWhile(s, set) ==
  IF s # <<>> /\ Head(s) \in set THEN <<Head(s)>> \o TakeWhile(Tail(s), set) ELSE <<>>

Reverse(s) == [i \in 1..Len(s) |-> s[Len(s) + 1 - i]]

\* String.prototype.trim
trim(s) == Reverse(DropWhile(Reverse(DropWhile(s, WhiteSpace)), WhiteSpace))

\* the rest of s after the delimiter run it starts with (the + of the expression)
RECURSIVE DropDelimiters(_)
DropDelimiters(s) ==
  IF s # <<>> /\ IsDelimiter(Head(s)) THEN DropDelimiters(Tail(s)) ELSE s

\* String.prototype.split on the delimiter expression
RECURSIVE SplitRec(_, _, _)
SplitRec(s, cur, acc) ==
  IF s = <<>> THEN Append(acc, cur)
  ELSE IF IsDelimiter(Head(s))
    THEN SplitRec(DropDelimiters(s), <<>>, Append(acc, cur))
  ELSE SplitRec(Tail(s), Append(cur, Head(s)), acc)

split(s) == SplitRec(s, <<>>, <<>>)

\* the tokens both functions work on: split, trim, drop the empty ones
Tokens(s) == SelectSeq([i \in 1..Len(split(s)) |-> trim(split(s)[i])],
                       LAMBDA val : Len(val) > 0)

RECURSIVE DigitsValue(_)
DigitsValue(ds) ==
  IF ds = <<>> THEN 0 ELSE 10 * DigitsValue(SubSeq(ds, 1, Len(ds) - 1)) + DigitVal(ds[Len(ds)])

StartsWith(s, prefix) == Len(s) >= Len(prefix) /\ SubSeq(s, 1, Len(prefix)) = prefix

InfinityLiteral == <<"I", "n", "f", "i", "n", "i", "t", "y">>

\* the global parseFloat: the number of the longest prefix that is a decimal
\* literal, after leading white space; NaN when there is none.  (The exponent
\* part of a literal needs e or E, which no modelled text holds.)
parseFloat(s) ==
  LET t == DropWhile(s, WhiteSpace)
      signed == t # <<>> /\ Head(t) \in {"+", "-"}
      sign == IF signed /\ Head(t) = "-" THEN -1 ELSE 1
      body == IF signed THEN Tail(t) ELSE t
      intPart == TakeWhile(body, Digits)
      rest == SubSeq(body, Len(intPart) + 1, Len(body))
      dotted == rest # <<>> /\ Head(rest) = "."
      fracPart == IF dotted THEN TakeWhile(Tail(rest), Digits) ELSE <<>>
      scale == 10 ^ Len(fracPart)
  IN  IF StartsWith(body, InfinityLiteral)
        THEN (IF sign < 0 THEN NegInf ELSE PosInf)
      ELSE IF intPart = <<>> /\ fracPart = <<>> THEN NaN
      ELSE Round(sign * (DigitsValue(intPart) * scale + DigitsValue(fracPart)) * One, scale)

RECURSIVE Join(_, _)
Join(strs, sep) ==
  IF strs = <<>> THEN <<>>
  ELSE IF Len(strs) = 1 THEN strs[1]
  ELSE strs[1] \o sep \o Join(Tail(strs), sep)

---------------------------------------------------------------------------
(* utils/validation.ts *)

\* validateNumericInput with the flag left true when a token is rejected
validateNumericInputKeepsFlag(s) ==
  IF s = <<>> \/ trim(s) = <<>>
    THEN [isValid |-> FALSE, errors |-> << <<"Input cannot be empty">> >>]
  ELSE LET values == Tokens(s)
           bad == SelectSeq(values, LAMBDA value : isNaN(parseFloat(value)))
       IN  [isValid |-> TRUE,
            errors |-> [i \in 1..Len(bad) |-> <<"Invalid number: ">> \o bad[i]]]

validateNumericInput(s) ==
  IF s = <<>> \/ trim(s) = <<>>
    THEN [isValid |-> FALSE, errors |-> << <<"Input cannot be empty">> >>]
  ELSE LET values == Tokens(s)
           bad == SelectSeq(values, LAMBDA value : isNaN(parseFloat(value)))
       IN  [isValid |-> bad = <<>>,
            errors |-> [i \in 1..Len(bad) |-> <<"Invalid number: ">> \o bad[i]]]

\* a returned value, or the Error thrown
Return(v) == [threw |-> FALSE, error |-> <<>>, value |-> v]
Throw(msg) == [threw |-> TRUE, error |-> msg, value |-> <<>>]

\* parseNumericInput without the validation it starts with
parseNumericInputUnchecked(s) ==
  Return([i \in 1..Len(Tokens(s)) |-> parseFloat(Tokens(s)[i])])

parseNumericInput(s) ==
  LET validation == validateNumericInput(s)
  IN  IF ~validation.isValid
        THEN Throw(<<"Invalid input: ">> \o Join(validation.errors, <<", ">>))
        ELSE Return([i \in 1..Len(Tokens(s)) |-> parseFloat(Tokens(s)[i])])

---------------------------------------------------------------------------
(* Arrays of numbers *)

\* Array.prototype.reduce((acc, val) => acc + val, 0)
RECURSIVE Sum(_)
Sum(d) == IF d = <<>> THEN Zero ELSE Add(Sum(SubSeq(d, 1, Len(d) - 1)), d[Len(d)])

Map(d, Op(_)) == [i \in 1..Len(d) |-> Op(d[i])]

\* Math.min(...data) and Math.max(...data): NaN when any argument is NaN
RECURSIVE MathMin(_)
MathMin(d) ==
  IF d = <<>> THEN PosInf
  ELSE LET m == MathMin(Tail(d))
       IN  IF isNaN(Head(d)) \/ isNaN(m) THEN NaN
           ELSE IF Lt(Head(d), m) THEN Head(d) ELSE m

RECURSIVE MathMax(_)
MathMax(d) ==
  IF d = <<>> THEN NegInf
  ELSE LET m == MathMax(Tail(d))
       IN  IF isNaN(Head(d)) \/ isNaN(m) THEN NaN
           ELSE IF Lt(m, Head(d)) THEN Head(d) ELSE m

\* the comparator (a, b) => a - b; sort reads a NaN result as 0
Compare(a, b) == LET c == Sub(a, b) IN IF isNaN(c) THEN Zero ELSE c

\* x put into the ascending s, after the elements it does not precede
RECURSIVE Insert(_, _)
Insert(s, x) ==
  IF s = <<>> THEN <<x>>
  ELSE IF Lt(Compare(x, Head(s)), Zero) THEN <<x>> \o s
  ELSE <<Head(s)>> \o Insert(Tail(s), x)

\* [...data].sort((a, b) => a - b): the stable ascending order.  With a NaN
\* element the comparator is inconsistent and the order is implementation-
\* defined: SortDefined says when the result is determined.
RECURSIVE Sort(_)
Sort(d) == IF d = <<>> THEN <<>> ELSE Insert(Sort(SubSeq(d, 1, Len(d) - 1)), d[Len(d)])

SortDefined(d) == \A i \in 1..Len(d) : ~isNaN(d[i])

---------------------------------------------------------------------------
(* Dataset cleaning, utils/validation.ts *)

\* removeOutliersIQR with the bounds excluded
removeOutliersIQRExclusive(d) ==
  LET sorted == Sort(d)
      n == Num(Len(sorted))
      q1Index == IntOf(MathFloor(Mul(n, Round(One, 4))))
      q3Index == IntOf(MathFloor(Mul(n, Round(3 * One, 4))))
      q1 == sorted[q1Index + 1]
      q3 == sorted[q3Index + 1]
      iqr == Sub(q3, q1)
      lowerBound == Sub(q1, Mul(Round(3 * One, 2), iqr))
      upperBound == Add(q3, Mul(Round(3 * One, 2), iqr))
  IN  SelectSeq(d, LAMBDA val : Lt(lowerBound, val) /\ Lt(val, upperBound))

removeOutliersIQR(d) ==
  LET sorted == Sort(d)
      n == Num(Len(sorted))
      q1Index == IntOf(MathFloor(Mul(n, Round(One, 4))))
      q3Index == IntOf(MathFloor(Mul(n, Round(3 * One, 4))))
      q1 == sorted[q1Index + 1]
      q3 == sorted[q3Index + 1]
      iqr == Sub(q3, q1)
      lowerBound == Sub(q1, Mul(Round(3 * One, 2), iqr))
      upperBound == Add(q3, Mul(Round(3 * One, 2), iqr))
  IN  SelectSeq(d, LAMBDA val : Ge(val, lowerBound) /\ Le(val, upperBound))

removeOutliersZScore(d, threshold) ==
  LET mean == Div(Sum(d), Num(Len(d)))
      variance == Div(Sum(Map(d, LAMBDA val : Mul(Sub(val, mean), Sub(val, mean)))),
                      Num(Len(d)))
      stdDev == MathSqrt(variance)
  IN  SelectSeq(d, LAMBDA val : Le(MathAbs(Div(Sub(val, mean), stdDev)), threshold))

DefaultOptions ==
  [removeNaN |-> TRUE, removeInfinite |-> TRUE, removeOutliers |-> FALSE,
   outlierMethod |-> "iqr", zscoreThreshold |-> Num(3)]

\* cleanDataset with the infinite values kept
cleanDatasetKeepsInfinite(d, options) ==
  LET c2 == IF options.removeNaN THEN SelectSeq(d, LAMBDA val : ~isNaN(val)) ELSE d
  IN  IF options.removeOutliers /\ Len(c2) > 0
        THEN (IF options.outlierMethod = "iqr" THEN removeOutliersIQR(c2)
              ELSE IF options.outlierMethod = "zscore"
                THEN removeOutliersZScore(c2, options.zscoreThreshold)
              ELSE c2)
        ELSE c2

cleanDataset(d, options) ==
  LET c1 == IF options.removeNaN THEN SelectSeq(d, LAMBDA val : ~isNaN(val)) ELSE d
      c2 == IF options.removeInfinite THEN SelectSeq(c1, isFinite) ELSE c1
  IN  IF options.removeOutliers /\ Len(c2) > 0
        THEN (IF options.outlierMethod = "iqr" THEN removeOutliersIQR(c2)
              ELSE IF options.outlierMethod = "zscore"
                THEN removeOutliersZScore(c2, options.zscoreThreshold)
              ELSE c2)
        ELSE c2

\* whether cleanDataset(d, options) sorts an array holding NaN
CleanSortDefined(d, options) ==
  LET c1 == IF options.removeNaN THEN SelectSeq(d, LAMBDA val : ~isNaN(val)) ELSE d
      c2 == IF options.removeInfinite THEN SelectSeq(c1, isFinite) ELSE c1
  IN  (options.removeOutliers /\ options.outlierMethod = "iqr") => SortDefined(c2)

---------------------------------------------------------------------------
(* Descriptive statistics, calculateMean .. calculateDescriptiveStats *)

\* calculateMean without the check for an empty dataset
calculateMeanUnguarded(d) == Return(Div(Sum(d), Num(Len(d))))

calculateMean(d) ==
  IF Len(d) = 0 THEN Throw(<<"Cannot calculate mean of empty dataset">>)
  ELSE Return(Div(Sum(d), Num(Len(d))))

calculateMedian(d) ==
  IF Len(d) = 0 THEN Throw(<<"Cannot calculate median of empty dataset">>)
  ELSE LET sorted == Sort(d)
           mid == Len(sorted) \div 2
       IN  IF Len(sorted) % 2 = 0
             THEN Return(Div(Add(sorted[mid], sorted[mid + 1]), Num(2)))
             ELSE Return(sorted[mid + 1])

\* calculateVariance with the divisor n for every type
calculateVariancePopulationOnly(d, type) ==
  IF Len(d) = 0 THEN Throw(<<"Cannot calculate variance of empty dataset">>)
  ELSE LET mean == calculateMean(d).value
           squaredDifferences == Map(d, LAMBDA val : Mul(Sub(val, mean), Sub(val, mean)))
       IN  Return(Div(Sum(squaredDifferences), Num(Len(d))))

\* type is "population", "sample" or "default" (options.type left undefined)
calculateVariance(d, type) ==
  IF Len(d) = 0 THEN Throw(<<"Cannot calculate variance of empty dataset">>)
  ELSE LET mean == calculateMean(d).value
           squaredDifferences == Map(d, LAMBDA val : Mul(Sub(val, mean), Sub(val, mean)))
           sum == Sum(squaredDifferences)
           divisor == IF type = "sample" THEN Len(d) - 1 ELSE Len(d)
       IN  Return(Div(sum, Num(divisor)))

calculateStandardDeviation(d, type) ==
  IF Len(d) = 0 THEN Throw(<<"Cannot calculate standard deviation of empty dataset">>)
  ELSE IF Len(d) = 1 THEN Return(Zero)
  ELSE Return(MathSqrt(calculateVariance(d, type).value))

\* calculateCoefficientOfVariation without the check for a zero mean
calculateCoefficientOfVariationUnchecked(d, type) ==
  IF Len(d) = 0
    THEN Throw(<<"Cannot calculate coefficient of variation of empty dataset">>)
  ELSE Return(Mul(Div(calculateStandardDeviation(d, type).value,
                      MathAbs(calculateMean(d).value)),
                  Num(100)))

calculateCoefficientOfVariation(d, type) ==
  IF Len(d) = 0
    THEN Throw(<<"Cannot calculate coefficient of variation of empty dataset">>)
  ELSE LET mean == calculateMean(d).value
       IN  IF StrictEq(mean, Zero)
             THEN Throw(<<"Cannot calculate coefficient of variation when mean is zero">>)
             ELSE Return(Mul(Div(calculateStandardDeviation(d, type).value, MathAbs(mean)),
                             Num(100)))

\* the closure interpolate of calculateQuartiles, over the sorted copy
interpolate(sorted, index) ==
  LET n == Len(sorted)
      lower == IntOf(MathFloor(index)) - 1
      upper == IntOf(MathCeil(index)) - 1
      fraction == Sub(index, MathFloor(index))
  IN  IF lower < 0 THEN sorted[1]
      ELSE IF upper >= n THEN sorted[n]
      ELSE IF lower = upper THEN sorted[lower + 1]
      ELSE Add(sorted[lower + 1], Mul(fraction, Sub(sorted[upper + 1], sorted[lower + 1])))

calculateQuartiles(d) ==
  IF Len(d) = 0 THEN Throw(<<"Cannot calculate quartiles of empty dataset">>)
  ELSE LET sorted == Sort(d)
           n == Num(Len(sorted))
           q1Index == Div(Add(n, Num(1)), Num(4))
           q2Index == Div(Add(n, Num(1)), Num(2))
           q3Index == Div(Mul(Num(3), Add(n, Num(1))), Num(4))
       IN  Return([q1 |-> interpolate(sorted, q1Index),
                   q2 |-> interpolate(sorted, q2Index),
                   q3 |-> interpolate(sorted, q3Index)])

calculateDescriptiveStats(d, type) ==
  IF Len(d) = 0 THEN Throw(<<"Cannot calculate statistics of empty dataset">>)
  ELSE LET mean == calculateMean(d)
           median == calculateMedian(d)
           standardDeviation == calculateStandardDeviation(d, type)
           coefficientOfVariation == calculateCoefficientOfVariation(d, type)
           quartiles == calculateQuartiles(d)
       IN  IF coefficientOfVariation.threw THEN coefficientOfVariation
           ELSE Return([mean |-> mean.value,
                        median |-> median.value,
                        standardDeviation |-> standardDeviation.value,
                        coefficientOfVariation |-> coefficientOfVariation.value,
                        min |-> MathMin(d),
                        max |-> MathMax(d),
                        count |-> Len(d),
                        quartiles |-> quartiles.value])

---------------------------------------------------------------------------
(* Inputs *)

SeqsUpTo(S, n) == UNION { [1..k -> S] : k \in 0..n }

Nums(ns) == [i \in 1..Len(ns) |-> Num(ns[i])]

\* the texts of the repository's tests (validation.test.ts, the full-width
\* delimiter script) and two tokens that start with a number
FixtureTexts ==
  { <<"1", ",", "2", ",", "3", ",", "4", ",", "5">>,
    <<"1", FWCOMMA, "2", FWCOMMA, "3", FWCOMMA, "4", FWCOMMA, "5">>,
    <<"1", ",", " ", "2", ",", " ", "3", ",", " ", "4", ",", " ", "5">>,
    <<"1", FWCOMMA, " ", "2", FWCOMMA, " ", "3", FWCOMMA, " ", "4", FWCOMMA, " ", "5">>,
    <<"1", ",", "2", FWCOMMA, "3", ",", "4", FWCOMMA, "5">>,
    <<"1", FWSEMI, "2", FWSEMI, "3", FWSEMI, "4", FWSEMI, "5">>,
    <<"1", ",", "2", "\n", "3", ",", "4", "\n", "5">>,
    <<"1", FWCOMMA, "2", "\n", "3", FWCOMMA, "4", "\n", "5">>,
    <<"1", " ", "2", " ", "3", " ", "4", " ", "5">>,
    <<"1", "\n", "2", "\n", "3", "\n", "4", "\n", "5">>,
    <<"1", ",", "a", "b", "c", ",", "3">>,
    <<"1", ",", " ", "2", ";", " ", "3", "\n", "4", "\t", "5">>,
    <<"1", ".", "5", ",", " ", "2", ".", "7", ",", " ", "3", ".", "1", "4">>,
    <<"-", "1", ",", " ", "-", "2", ".", "5", ",", " ", "3">>,
    <<" ", " ", "1", " ", " ", ",", " ", " ", "2", " ", " ", ",", " ", " ", "3", " ", " ">>,
    <<"I", "n", "f", "i", "n", "i", "t", "y">>,
    <<"1", "2", "a", "b", "c">>,
    <<"1", ";", "2", ";", "3", ";", "4", ";", "5">> }

Alphabet == {"1", "2", "a", ".", ",", " ", FWCOMMA}

InputTexts == SeqsUpTo(Alphabet, MaxStrLen) \cup FixtureTexts

\* the datasets of the repository's tests
messyData == <<Num(1), Num(2), NaN, Num(3), PosInf, Num(4), NegInf, Num(5)>>
dataWithOutliers == Nums(<<1, 2, 3, 4, 5, 100>>)
sampleData == Nums(<<1, 2, 3, 4, 5, 6, 7, 8, 9, 10>>)
cleanData == Nums(<<1, 2, 3, 4, 5>>)
singleValue == Nums(<<5>>)
identicalValues == Nums(<<3, 3, 3, 3>>)

zeroMean == Nums(<<-1, 1>>)

FixtureData ==
  {messyData, dataWithOutliers, sampleData, cleanData, singleValue, identicalValues,
   zeroMean}

MessyValues == {NaN, PosInf, NegInf, Num(1)}

\* 8.25 and 16.5 differ in exponent, so sums and differences of them round;
\* 23 fills the significand, so adding it to itself twice rounds
FiniteValues ==
  {Neg(MAX_VALUE), Zero, Num(1), Round(33 * One, 4), Round(33 * One, 2), Num(23),
   MAX_VALUE}

DataSets ==
  SeqsUpTo(MessyValues, MaxLen) \cup SeqsUpTo(FiniteValues, MaxLen) \cup FixtureData

StatTypes == {"undefined", "population", "sample"}

\* outlier removal off, by IQR, and by z-score with the default threshold and
\* with one small enough to drop a value of a short dataset
OutlierOptions ==
  { <<FALSE, "iqr", Num(3)>>, <<TRUE, "iqr", Num(3)>>,
    <<TRUE, "zscore", Num(3)>>, <<TRUE, "zscore", Num(1)>> }

CleaningOptions ==
  { [removeNaN |-> rn, removeInfinite |-> ri, removeOutliers |-> o[1],
     outlierMethod |-> o[2], zscoreThreshold |-> o[3]] :
      rn \in BOOLEAN, ri \in BOOLEAN, o \in OutlierOptions }

---------------------------------------------------------------------------
(* The calls of the engine's functions.  A behaviour is one call on one     *)
(* input: call holds the function, its argument besides the text or the    *)
(* dataset, and what it returned or threw.  No function writes to its      *)
(* argument.                                                               *)

NoCall == [fn |-> "none", args |-> <<>>, ret |-> <<>>]

Call(fn, args, ret) ==
  /\ call = NoCall
  /\ call' = [fn |-> fn, args |-> args, ret |-> ret]
  /\ UNCHANGED <<input, data, history, state, before>>

CallValidateNumericInput ==
  Call("validateNumericInput", <<>>, Return(validateNumericInput(input)))

CallParseNumericInput ==
  Call("parseNumericInput", <<>>, parseNumericInput(input))

CallCleanDataset ==
  \E options \in CleaningOptions :
    /\ CleanSortDefined(data, options)
    /\ Call("cleanDataset", options, Return(cleanDataset(data, options)))

CallMean == Call("calculateMean", <<>>, calculateMean(data))

CallMedian ==
  /\ SortDefined(data)
  /\ Call("calculateMedian", <<>>, calculateMedian(data))

CallVariance ==
  \E type \in StatTypes : Call("calculateVariance", type, calculateVariance(data, type))

CallStandardDeviation ==
  \E type \in StatTypes :
    Call("calculateStandardDeviation", type, calculateStandardDeviation(data, type))

CallCoefficientOfVariation ==
  \E type \in StatTypes :
    Call("calculateCoefficientOfVariation", type,
         calculateCoefficientOfVariation(data, type))

CallQuartiles ==
  /\ SortDefined(data)
  /\ Call("calculateQuartiles", <<>>, calculateQuartiles(data))

CallDescriptiveStats ==
  \E type \in StatTypes :
    /\ SortDefined(data)
    /\ Call("calculateDescriptiveStats", type, calculateDescriptiveStats(data, type))

\* the parser and validator, on every input text
InitInput == input \in InputTexts /\ data = <<>> /\ call = NoCall /\ history = <<>>
  /\ state = <<>> /\ before = <<>>
NextInput == CallValidateNumericInput \/ CallParseNumericInput
SpecInput == InitInput /\ [][NextInput]_vars

\* the cleaner and the statistics, on every dataset
Init == input = <<>> /\ data \in DataSets /\ call = NoCall /\ history = <<>>
  /\ state = <<>> /\ before = <<>>
Next ==
  \/ CallCleanDataset
  \/ CallMean
  \/ CallMedian
  \/ CallVariance
  \/ CallStandardDeviation
  \/ CallCoefficientOfVariation
  \/ CallQuartiles
  \/ CallDescriptiveStats
Spec == Init /\ [][Next]_vars

---------------------------------------------------------------------------
(* Properties of the parser and validator (under SpecInput) *)

Validated == call.fn = "validateNumericInput"
Parsed == call.fn = "parseNumericInput"

ToAscii(s) ==
  [i \in 1..Len(s) |-> IF s[i] = FWCOMMA THEN "," ELSE IF s[i] = FWSEMI THEN ";" ELSE s[i]]

\* numbers written with digits only, separated by single full-width delimiters
FullWidthList(s) ==
  /\ Len(s) >= 3
  /\ s[1] \in Digits /\ s[Len(s)] \in Digits
  /\ \A i \in 1..Len(s) : s[i] \in Digits \cup {FWCOMMA, FWSEMI}
  /\ \E i \in 1..Len(s) : s[i] \in {FWCOMMA, FWSEMI}
  /\ \A i \in 1..(Len(s) - 1) : s[i] \in Digits \/ s[i + 1] \in Digits

\* C1: a list of numbers separated by full-width commas or semicolons is
\* valid and parses to the same sequence as the list written with , and ;
C1_FullWidthDelimiters ==
  FullWidthList(input) =>
    /\ Validated => call.ret.value.isValid
    /\ Parsed => call.ret = parseNumericInput(ToAscii(input))

\* a whole token that is a decimal number: sign, digits, at most one point
IsDecimalNumber(tok) ==
  LET body == IF tok # <<>> /\ tok[1] \in {"+", "-"} THEN Tail(tok) ELSE tok
  IN  /\ \A i \in 1..Len(body) : body[i] \in Digits \cup {"."}
      /\ Cardinality({ i \in 1..Len(body) : body[i] = "." }) <= 1
      /\ \E i \in 1..Len(body) : body[i] \in Digits

IsBlank(s) == \A i \in 1..Len(s) : s[i] \in {" ", "\t", "\n"}

\* the maximal runs of characters that are no comma, semicolon or white space
RECURSIVE RunsFrom(_, _)
RunsFrom(s, i) ==
  LET delims == {",", ";", " ", "\t", "\n"}
      end == CHOOSE j \in i..Len(s) :
               /\ \A k \in i..j : s[k] \notin delims
               /\ j = Len(s) \/ s[j + 1] \in delims
  IN  IF i > Len(s) THEN <<>>
      ELSE IF s[i] \notin delims /\ (i = 1 \/ s[i - 1] \in delims)
        THEN <<SubSeq(s, i, end)>> \o RunsFrom(s, i + 1)
      ELSE RunsFrom(s, i + 1)

TokenRuns(s) == RunsFrom(s, 1)

\* C2: every token that is not a whole decimal number is reported as
\* "Invalid number: <token>" and makes the input invalid
C2_WholeTokenMustBeNumber ==
  (Validated /\ ~IsBlank(input)) =>
    \A i \in 1..Len(TokenRuns(input)) :
      ~IsDecimalNumber(TokenRuns(input)[i]) =>
        /\ ~call.ret.value.isValid
        /\ \E e \in 1..Len(call.ret.value.errors) :
             call.ret.value.errors[e] = <<"Invalid number: ">> \o TokenRuns(input)[i]

\* C3: validateNumericInput returns; errors is non-empty exactly when isValid
\* is false; empty or blank input gives the one error "Input cannot be empty"
C3_ErrorsIffInvalid ==
  Validated =>
    /\ ~call.ret.threw
    /\ (call.ret.value.errors # <<>>) <=> ~call.ret.value.isValid
    /\ IsBlank(input) => call.ret.value.errors = << <<"Input cannot be empty">> >>

C3_Witness ==
  /\ Validated /\ Len(input) > 0 /\ IsBlank(input)
  /\ call.ret.value = [isValid |-> FALSE, errors |-> << <<"Input cannot be empty">> >>]

\* the pieces of a sequence of texts, one after the other
RECURSIVE Concat(_)
Concat(strs) == IF strs = <<>> THEN <<>> ELSE Head(strs) \o Concat(Tail(strs))

\* C4: parseNumericInput throws exactly when the validator rejects the input,
\* with the errors joined by ", "; otherwise it returns the number of each
\* non-empty token, in input order
C4_ParseRevalidates ==
  Parsed =>
    LET validation == validateNumericInput(input)
        errs == validation.errors
        joined == [i \in 1..(2 * Len(errs) - 1) |->
                     IF i % 2 = 1 THEN errs[(i + 1) \div 2] ELSE <<", ">>]
    IN  /\ call.ret.threw <=> ~validation.isValid
        /\ call.ret.threw =>
             /\ Len(errs) > 0
             /\ call.ret.error = <<"Invalid input: ">> \o Concat(joined)
        /\ ~call.ret.threw =>
             /\ Len(call.ret.value) = Len(TokenRuns(input))
             /\ \A i \in 1..Len(call.ret.value) :
                  call.ret.value[i] = parseFloat(TokenRuns(input)[i])

C4_Witness ==
  /\ Parsed /\ input = <<"1", ",", "2">>
  /\ call.ret = Return(<<Num(1), Num(2)>>)

---------------------------------------------------------------------------
(* Properties of the cleaner and the statistics (under Spec) *)

Cleaned == call.fn = "cleanDataset"

AllFinite(d) == \A i \in 1..Len(d) : d[i].k = "num"

\* the finite values of d, in the order of d
RECURSIVE FiniteValuesOf(_)
FiniteValuesOf(d) ==
  IF d = <<>> THEN <<>>
  ELSE (IF Head(d).k = "num" THEN <<Head(d)>> ELSE <<>>) \o FiniteValuesOf(Tail(d))

\* C5: cleanDataset with the default options returns, without failing, the
\* finite values of its input in their order (all of it when all are finite)
C5_DefaultsKeepFiniteValues ==
  (Cleaned /\ call.args = DefaultOptions) =>
    /\ ~call.ret.threw
    /\ call.ret.value = FiniteValuesOf(data)
    /\ AllFinite(data) => call.ret.value = data

C5_Witness ==
  /\ Cleaned /\ call.args = DefaultOptions
  /\ data = messyData
  /\ call.ret.value = Nums(<<1, 2, 3, 4, 5>>)

\* the element at index k (from 0) of the ascending order of finite values f
KthSmallest(f, k) ==
  LET x == CHOOSE i \in 1..Len(f) :
             /\ Cardinality({ j \in 1..Len(f) : f[j].v < f[i].v }) <= k
             /\ k < Cardinality({ j \in 1..Len(f) : f[j].v <= f[i].v })
  IN  f[x]

\* C6: with removeOutliers and the method 'iqr', cleanDataset returns the
\* finite values v with q1 - 1.5*iqr <= v <= q3 + 1.5*iqr, in their order,
\* where q1 = sorted[floor(n*0.25)], q3 = sorted[floor(n*0.75)], iqr = q3 - q1
C6_IQRKeepsValuesWithinBounds ==
  (/\ Cleaned /\ call.args.removeOutliers /\ call.args.outlierMethod = "iqr"
   /\ call.args.removeNaN /\ call.args.removeInfinite) =>
    LET f == FiniteValuesOf(data)
        n == Len(f)
        q1 == KthSmallest(f, n \div 4)
        q3 == KthSmallest(f, (3 * n) \div 4)
        iqr == Sub(q3, q1)
        lo == Sub(q1, Mul(Round(3 * One, 2), iqr))
        hi == Add(q3, Mul(Round(3 * One, 2), iqr))
    IN  call.ret.value =
          IF n = 0 THEN <<>>
          ELSE SelectSeq(f, LAMBDA v : Ord(lo) <= Ord(v) /\ Ord(v) <= Ord(hi))

C6_Witness ==
  /\ Cleaned /\ call.args.removeOutliers /\ call.args.outlierMethod = "iqr"
  /\ call.args.removeNaN /\ call.args.removeInfinite
  /\ data = Nums(<<1, 2, 3, 4, 5, 100>>)
  /\ call.ret.value = Nums(<<1, 2, 3, 4, 5>>)

\* C7: with removeOutliers and the method 'zscore', cleanDataset keeps every
\* value of a filtered sequence whose values are all the same (one value
\* included): the standard deviation is 0 and no value is an outlier
C7_ZScoreKeepsConstantData ==
  (/\ Cleaned /\ call.args.removeOutliers /\ call.args.outlierMethod = "zscore"
   /\ call.args.removeNaN /\ call.args.removeInfinite) =>
    LET f == FiniteValuesOf(data)
    IN  (f # <<>> /\ \A i \in 1..Len(f) : f[i] = f[1]) => call.ret.value = f

StatisticsFunctions ==
  {"calculateMean", "calculateMedian", "calculateVariance",
   "calculateStandardDeviation", "calculateCoefficientOfVariation",
   "calculateQuartiles", "calculateDescriptiveStats"}

\* C8: each statistics function throws an error on the empty dataset and
\* returns no value for it
C8_EmptyDatasetThrows ==
  (call.fn \in StatisticsFunctions /\ data = <<>>) =>
    /\ call.ret.threw
    /\ call.ret.error # <<>>
    /\ call.ret.value = <<>>

C8_Witness ==
  /\ call.fn = "calculateMean" /\ data = <<>>
  /\ call.ret = Throw(<<"Cannot calculate mean of empty dataset">>)

\* C9: the quartiles of a non-empty dataset of finite values are ordered,
\* q1 <= q2 <= q3
C9_QuartilesOrdered ==
  (call.fn = "calculateQuartiles" /\ data # <<>> /\ AllFinite(data)) =>
    /\ ~call.ret.threw
    /\ Le(call.ret.value.q1, call.ret.value.q2)
    /\ Le(call.ret.value.q2, call.ret.value.q3)

\* C10: the median of a non-empty dataset is the q2 of its quartiles
C10_MedianEqualsQ2 ==
  (call.fn = "calculateMedian" /\ data # <<>> /\ AllFinite(data)) =>
    /\ ~call.ret.threw
    /\ call.ret.value = calculateQuartiles(data).value.q2

AllIdentical(d) == \A i \in 1..Len(d) : d[i] = d[1]

\* C11: calculateStandardDeviation returns 0 for a single value, with either
\* option, and for every dataset whose values are all the same
C11_StdDevOfConstantDataIsZero ==
  (/\ call.fn = "calculateStandardDeviation"
   /\ data # <<>> /\ AllFinite(data) /\ AllIdentical(data)) =>
    call.ret = Return(Zero)

ZeroMeanError == <<"Cannot calculate coefficient of variation when mean is zero">>

\* C12: calculateCoefficientOfVariation throws exactly when the dataset is
\* empty or its mean is 0, and otherwise returns (stdDev / |mean|) * 100;
\* calculateDescriptiveStats throws the zero-mean error for every non-empty
\* dataset whose mean is 0
C12_ZeroMeanThrows ==
  LET mean == calculateMean(data).value
      meanIsZero == data # <<>> /\ mean.k = "num" /\ mean.v = 0
  IN  /\ call.fn = "calculateCoefficientOfVariation" =>
           /\ call.ret.threw <=> (data = <<>> \/ meanIsZero)
           /\ meanIsZero => call.ret.error = ZeroMeanError
           /\ ~call.ret.threw =>
                call.ret.value =
                  Mul(Div(calculateStandardDeviation(data, call.args).value,
                          MathAbs(mean)),
                      Num(100))
      /\ (call.fn = "calculateDescriptiveStats" /\ meanIsZero) =>
           call.ret = Throw(ZeroMeanError)

C12_Witness ==
  /\ call.fn = "calculateDescriptiveStats"
  /\ data = zeroMean
  /\ call.ret = Throw(ZeroMeanError)

\* C13: calculateDescriptiveStats returns a result, with standard deviation
\* 0, for every single-element dataset and every dataset of identical values
C13_ConstantDataHasStatistics ==
  (/\ call.fn = "calculateDescriptiveStats"
   /\ data # <<>> /\ AllFinite(data) /\ AllIdentical(data)) =>
    /\ ~call.ret.threw
    /\ call.ret.value.standardDeviation = Zero

\* C20: for a non-empty dataset with non-zero mean calculateDescriptiveStats
\* returns the results of the individual functions, the length as count and
\* the smallest and largest element as min and max, so that
\* min <= q1 <= median <= q3 <= max and min <= mean <= max
C20_DescriptiveStatsComposes ==
  (/\ call.fn = "calculateDescriptiveStats"
   /\ data # <<>> /\ AllFinite(data)
   /\ calculateMean(data).value # Zero) =>
    /\ ~call.ret.threw
    /\ LET st == call.ret.value
       IN  /\ st.mean = calculateMean(data).value
           /\ st.median = calculateMedian(data).value
           /\ st.standardDeviation = calculateStandardDeviation(data, call.args).value
           /\ st.coefficientOfVariation =
                calculateCoefficientOfVariation(data, call.args).value
           /\ st.quartiles = calculateQuartiles(data).value
           /\ st.count = Len(data)
           /\ \E i \in 1..Len(data) : st.min = data[i]
           /\ \E i \in 1..Len(data) : st.max = data[i]
           /\ \A i \in 1..Len(data) : st.min.v <= data[i].v /\ data[i].v <= st.max.v
           /\ Le(st.min, st.quartiles.q1) /\ Le(st.quartiles.q1, st.median)
           /\ Le(st.median, st.quartiles.q3) /\ Le(st.quartiles.q3, st.max)
           /\ Le(st.min, st.mean) /\ Le(st.mean, st.max)

----------------------------------------------------------------------------
(* The histogram of components/Histogram.tsx *)

MaxBins == 5

DigitChar(n) == <<"0", "1", "2", "3", "4", "5", "6", "7", "8", "9">>[n + 1]

RECURSIVE DecimalDigits(_)
DecimalDigits(n) ==
  IF n < 10 THEN <<DigitChar(n)>>
  ELSE DecimalDigits(n \div 10) \o <<DigitChar(n % 10)>>

\* Number.prototype.toFixed(1): the nearest multiple of 0.1, the larger one
\* of two equally near, written with one decimal
toFixed1(x) ==
  IF isNaN(x) THEN <<"N", "a", "N">>
  ELSE IF IsInf(x) THEN (IF x.v < 0 THEN <<"-">> ELSE <<>>) \o InfinityLiteral
  ELSE LET n == (20 * AbsInt(x.v) + One) \div (2 * One)
       IN  (IF x.v < 0 THEN <<"-">> ELSE <<>>)
             \o DecimalDigits(n \div 10) \o <<".">> \o <<DigitChar(n % 10)>>

\* an array slot that was never assigned
Undefined == [k |-> "undefined", v |-> 0]

binWidth(d, bins) == Div(Sub(MathMax(d), MathMin(d)), Num(bins))

\* binEdges[i] of the source is binEdges(d, bins)[i + 1]
binEdges(d, bins) ==
  [i \in 1..(bins + 1) |-> Add(MathMin(d), Mul(Num(i - 1), binWidth(d, bins)))]

binLabels(d, bins) ==
  [i \in 1..bins |->
     toFixed1(binEdges(d, bins)[i]) \o <<"-">> \o toFixed1(binEdges(d, bins)[i + 1])]

\* binCounts[binIndex]++ : an index that is no array index (NaN, Infinity,
\* negative) names a property and leaves the elements alone; an index at or
\* past the length lengthens the array and stores undefined + 1 = NaN
Increment(counts, binIndex) ==
  IF ~isFinite(binIndex) \/ binIndex.v < 0 THEN counts
  ELSE LET i == IntOf(binIndex) + 1
       IN  IF i <= Len(counts) THEN [counts EXCEPT ![i] = Add(@, Num(1))]
           ELSE [j \in 1..i |-> IF j <= Len(counts) THEN counts[j]
                                ELSE IF j = i THEN NaN ELSE Undefined]

\* the bin a value is counted in
binIndex(d, bins, value) ==
  LET index == MathFloor(Div(Sub(value, MathMin(d)), binWidth(d, bins)))
  IN  IF StrictEq(index, Num(bins)) THEN Num(bins - 1) ELSE index

\* binCounts after the first n values of d have been counted
RECURSIVE binCounts(_, _, _)
binCounts(d, bins, n) ==
  IF n = 0 THEN [i \in 1..bins |-> Zero]
  ELSE Increment(binCounts(d, bins, n - 1), binIndex(d, bins, d[n]))

\* the memoized chart data of the Histogram component
Histogram(d, bins) ==
  IF Len(d) = 0 THEN [isEmpty |-> TRUE, labels |-> <<>>, counts |-> <<>>]
  ELSE [isEmpty |-> FALSE,
        labels |-> binLabels(d, bins),
        counts |-> binCounts(d, bins, Len(d))]

----------------------------------------------------------------------------
(* The kernel density estimate of utils/kde *)

MaxPoints == 4

\* x times the decimal literal num/den of the source, rounded once
MulLiteral(x, num, den) ==
  IF isFinite(x) THEN Round(x.v * num, den)
  ELSE IF IsInf(x) /\ num < 0 THEN Neg(x)
  ELSE x

\* Math.exp in fixed point: ExpNeg(t) is e^(-t/One) in steps of 1/ExpScale
ExpScale == 2 ^ 15

RECURSIVE ExpTerm(_)
ExpTerm(k) == IF k = 0 THEN ExpScale ELSE ExpTerm(k - 1) \div (One * k)

\* e^(-1/One) by its series
ExpStep ==
  ExpTerm(0) - ExpTerm(1) + ExpTerm(2) - ExpTerm(3) + ExpTerm(4) - ExpTerm(5)

RECURSIVE ExpNeg(_)
ExpNeg(t) ==
  IF t = 0 THEN ExpScale
  ELSE IF t >= 11 * One THEN 0  \* e^-11 < 1/ExpScale
  ELSE LET half == ExpNeg(t \div 2)
           square == (half * half) \div ExpScale
       IN  IF t % 2 = 0 THEN square ELSE (square * ExpStep) \div ExpScale

MathExp(x) ==
  IF isNaN(x) THEN NaN
  ELSE IF IsInf(x) THEN (IF x.v > 0 THEN PosInf ELSE Zero)
  ELSE IF x.v <= 0 THEN Round(ExpNeg(-x.v) * One, ExpScale)
  ELSE IF ExpNeg(x.v) = 0 THEN PosInf
  ELSE Round(ExpScale * One, ExpNeg(x.v))

MathPI == Round(355 * One, 113)

KernelTypes == {"gaussian", "epanechnikov", "triangular"}

gaussian(u) ==
  Mul(Div(Num(1), MathSqrt(Mul(Num(2), MathPI))), MathExp(Mul(MulLiteral(u, -1, 2), u)))

kernelFunction(u, kernel) ==
  CASE kernel = "gaussian" -> gaussian(u)
    [] kernel = "epanechnikov" ->
         IF Le(MathAbs(u), Num(1))
           THEN Mul(Div(Num(3), Num(4)), Sub(Num(1), Mul(u, u)))
           ELSE Zero
    [] kernel = "triangular" ->
         IF Le(MathAbs(u), Num(1)) THEN Sub(Num(1), MathAbs(u)) ELSE Zero
    [] OTHER -> gaussian(u)

\* the default bandwidth 0.5, also what the estimator gives for no data
DefaultBandwidth == Round(One, 2)

xMinOf(d) == Sub(MathMin(d), MulLiteral(Sub(MathMax(d), MathMin(d)), 1, 10))
xMaxOf(d) == Add(MathMax(d), MulLiteral(Sub(MathMax(d), MathMin(d)), 1, 10))

\* x[i] of the source is grid(d, points)[i + 1]
grid(d, points) ==
  [i \in 1..points |->
     Add(xMinOf(d),
         Mul(Div(Num(i - 1), Num(points - 1)), Sub(xMaxOf(d), xMinOf(d))))]

\* density after the first n data points have been added
RECURSIVE density(_, _, _, _, _)
density(d, n, xi, bandwidth, kernel) ==
  IF n = 0 THEN Zero
  ELSE Add(density(d, n - 1, xi, bandwidth, kernel),
           kernelFunction(Div(Sub(xi, d[n]), bandwidth), kernel))

calculateKDE(d, bandwidth, points, kernel) ==
  IF Len(d) = 0 THEN [x |-> <<>>, y |-> <<>>]
  ELSE LET x == grid(d, points)
       IN  [x |-> x,
            y |-> [i \in 1..points |->
                     Div(density(d, Len(d), x[i], bandwidth, kernel),
                         Mul(Num(Len(d)), bandwidth))]]

\* Math.pow(n, -1/5) for a length n >= 1: the nearest number to n^(-1/5)
InverseFifthRoot(n) ==
  LET p == CHOOSE q \in 0..One :
             /\ (2 * q - 1) ^ 5 * n <= (2 * One) ^ 5
             /\ (2 * q + 1) ^ 5 * n > (2 * One) ^ 5
  IN  Round(p, 1)

estimateOptimalBandwidth(d) ==
  IF Len(d) = 0 THEN DefaultBandwidth
  ELSE LET n == Len(d)
           mean == Div(Sum(d), Num(n))
           variance ==
             Div(Sum(Map(d, LAMBDA x : Mul(Sub(x, mean), Sub(x, mean)))), Num(n))
           stdDev == MathSqrt(variance)
       IN  Mul(MulLiteral(stdDev, 106, 100), InverseFifthRoot(n))

\* what the charts are given: datasets of finite numbers
ChartData == {d \in DataSets : AllFinite(d)}

CallHistogram ==
  \E bins \in 1..MaxBins : Call("Histogram", bins, Return(Histogram(data, bins)))

\* the bandwidths of a call: the default, 1 and 4
Bandwidths == {DefaultBandwidth, Num(1), Num(4)}

CallKDE ==
  \E bandwidth \in Bandwidths, points \in 1..MaxPoints, kernel \in KernelTypes :
    Call("calculateKDE", [bandwidth |-> bandwidth, points |-> points, kernel |-> kernel],
         Return(calculateKDE(data, bandwidth, points, kernel)))

CallEstimateOptimalBandwidth ==
  Call("estimateOptimalBandwidth", <<>>, Return(estimateOptimalBandwidth(data)))

InitCharts == input = <<>> /\ data \in ChartData /\ call = NoCall /\ history = <<>>
  /\ state = <<>> /\ before = <<>>
NextCharts == CallHistogram \/ CallKDE \/ CallEstimateOptimalBandwidth
SpecCharts == InitCharts /\ [][NextCharts]_vars

----------------------------------------------------------------------------
(* Repeated calls of the engine on one array *)

\* how often each call is made
MaxCalls == 2

\* `[...data].sort((a, b) => a - b)` with sort in place
sortedInPlace(d) == [sorted |-> Sort(d), data |-> Sort(d)]

\* `[...data].sort((a, b) => a - b)`: the sorted copy, and data afterwards
sorted(d) == [sorted |-> Sort(d), data |-> d]

\* the calls that are repeated, each with its arguments after data
EngineCalls ==
  << [fn |-> "calculateMedian", args |-> <<>>],
     [fn |-> "calculateQuartiles", args |-> <<>>],
     [fn |-> "calculateDescriptiveStats", args |-> "sample"],
     [fn |-> "cleanDataset", args |-> [DefaultOptions EXCEPT !.removeOutliers = TRUE]],
     [fn |-> "calculateKDE",
      args |-> [bandwidth |-> DefaultBandwidth, points |-> 3, kernel |-> "gaussian"]] >>

\* what call c returns for the array d
EngineResult(c, d) ==
  CASE c.fn = "calculateMedian" -> calculateMedian(d)
    [] c.fn = "calculateQuartiles" -> calculateQuartiles(d)
    [] c.fn = "calculateDescriptiveStats" -> calculateDescriptiveStats(d, c.args)
    [] c.fn = "cleanDataset" -> Return(cleanDataset(d, c.args))
    [] c.fn = "calculateKDE" ->
         Return(calculateKDE(d, c.args.bandwidth, c.args.points, c.args.kernel))

\* the array d after call c: calculateMedian and calculateQuartiles sort a
\* copy, calculateDescriptiveStats calls both, cleanDataset filters a copy
\* and calculateKDE only reads
ArrayAfter(c, d) ==
  CASE Len(d) = 0 -> d
    [] Len(d) > 0 /\ c.fn \in {"calculateMedian", "calculateQuartiles"} -> sorted(d).data
    [] Len(d) > 0 /\ c.fn = "calculateDescriptiveStats" -> sorted(sorted(d).data).data
    [] OTHER -> d

\* call number i of EngineCalls, on the array as the calls before left it;
\* history[i] keeps the outcomes of that call: what it returned and the
\* array before and after it
Again(i) ==
  LET c == EngineCalls[i]
      ret == EngineResult(c, data)
      outcome == [ret |-> ret, before |-> data, after |-> ArrayAfter(c, data)]
  IN  /\ Len(history[i]) < MaxCalls
      /\ history' = [history EXCEPT ![i] = Append(@, outcome)]
      /\ data' = ArrayAfter(c, data)
      /\ UNCHANGED <<input, call, state, before>>

CallsOf(fn) == {i \in 1..Len(EngineCalls) : EngineCalls[i].fn = fn}

AgainMedian == \E i \in CallsOf("calculateMedian") : Again(i)
AgainQuartiles == \E i \in CallsOf("calculateQuartiles") : Again(i)
AgainDescriptiveStats == \E i \in CallsOf("calculateDescriptiveStats") : Again(i)
AgainCleanDataset == \E i \in CallsOf("cleanDataset") : Again(i)
AgainKDE == \E i \in CallsOf("calculateKDE") : Again(i)

\* the arrays the calls are repeated on: the finite test data and every
\* array of up to two of three values, unsorted ones among them
RepeatData ==
  {d \in FixtureData : AllFinite(d)} \cup SeqsUpTo({Zero, Num(1), Num(23)}, 2)

InitRepeat ==
  /\ input = <<>>
  /\ data \in RepeatData
  /\ call = NoCall
  /\ history = [i \in 1..Len(EngineCalls) |-> <<>>]
  /\ state = <<>>
  /\ before = <<>>

NextRepeat ==
  \/ AgainMedian
  \/ AgainQuartiles
  \/ AgainDescriptiveStats
  \/ AgainCleanDataset
  \/ AgainKDE

SpecRepeat == InitRepeat /\ [][NextRepeat]_vars

----------------------------------------------------------------------------
(* Properties of the histogram (under SpecCharts) *)

Charted == call.fn = "Histogram"

\* the sum of the counts, as a number
RECURSIVE Total(_)
Total(counts) ==
  IF counts = <<>> THEN 0
  ELSE (IF Head(counts).k = "num" THEN IntOf(Head(counts)) ELSE 0) + Total(Tail(counts))

\* how many values of d have bin index i - 1
InBin(d, bins, i) ==
  Cardinality({n \in 1..Len(d) : binIndex(d, bins, d[n]) = Num(i - 1)})

\* C14: for a non-empty dataset and b >= 1 bins the histogram has b labels
\* and b counts, every value is counted once, in the bin of its index, and
\* the counts sum to the number of values
C14_HistogramCountsEveryValue ==
  (Charted /\ data # <<>>) =>
    LET h == call.ret.value
        b == call.args
    IN  /\ Len(h.labels) = b
        /\ Len(h.counts) = b
        /\ \A i \in 1..b : h.counts[i] = Num(InBin(data, b, i))
        /\ Total(h.counts) = Len(data)

\* C15: when all values are equal (bin width 0) every value is counted in
\* bin 0 and every other count is 0
C15_ZeroWidthCountsInFirstBin ==
  (Charted /\ data # <<>> /\ MathMin(data) = MathMax(data)) =>
    LET h == call.ret.value
    IN  /\ h.counts[1] = Num(Len(data))
        /\ \A i \in 2..Len(h.counts) : h.counts[i] = Zero

\* the test of Histogram.test.tsx: 1..10 in 5 bins
SampleHistogramCounted ==
  /\ Charted /\ data = sampleData /\ call.args = 5
  /\ Len(call.ret.value.labels) = 5
  /\ Total(call.ret.value.counts) = 10

----------------------------------------------------------------------------
(* Properties of the density estimate (under SpecCharts) *)

Estimated == call.fn = "calculateKDE"

\* the exact distance of a and b, in steps
Distance(a, b) == AbsInt(a.v - b.v)

\* C16: calculateKDE returns empty x and y for empty data; for non-empty
\* data, a positive bandwidth, points >= 1 and each kernel, x and y have
\* `points` entries and every y is >= 0; with the epanechnikov and the
\* triangular kernel y is 0 at a grid point farther than one bandwidth from
\* every data value
C16_DensityIsDefined ==
  Estimated =>
    LET kde == call.ret.value
        a == call.args
    IN  /\ data = <<>> => kde = [x |-> <<>>, y |-> <<>>]
        /\ data # <<>> =>
             /\ Len(kde.x) = a.points
             /\ Len(kde.y) = a.points
             /\ \A i \in 1..Len(kde.y) : Ge(kde.y[i], Zero)
             /\ a.kernel \in {"epanechnikov", "triangular"} =>
                  \A i \in 1..Len(kde.x) :
                    (/\ isFinite(kde.x[i])
                     /\ \A j \in 1..Len(data) :
                          Distance(kde.x[i], data[j]) > a.bandwidth.v)
                      => kde.y[i] = Zero

\* C17: for non-empty data and points >= 1 the grid x is ascending, starts
\* at min - 0.1 * range, ends at max + 0.1 * range, and every entry is a
\* number of that interval
C17_GridSpansPaddedRange ==
  (Estimated /\ data # <<>>) =>
    LET x == call.ret.value.x
    IN  /\ x[1] = xMinOf(data)
        /\ x[Len(x)] = xMaxOf(data)
        /\ \A i \in 1..Len(x) :
             isFinite(x[i]) /\ Le(xMinOf(data), x[i]) /\ Le(x[i], xMaxOf(data))
        /\ \A i \in 1..(Len(x) - 1) : Le(x[i], x[i + 1])

\* C18: estimateOptimalBandwidth never throws; it returns 0.5 for no data
\* and otherwise 1.06 * population standard deviation * n^(-1/5), a value
\* >= 0 that is 0 exactly when all values are identical
C18_BandwidthOfSpread ==
  call.fn = "estimateOptimalBandwidth" =>
    /\ ~call.ret.threw
    /\ data = <<>> => call.ret.value = DefaultBandwidth
    /\ data # <<>> =>
         /\ call.ret.value =
              Mul(MulLiteral(calculateStandardDeviation(data, "population").value,
                             106, 100),
                  InverseFifthRoot(Len(data)))
         /\ Ge(call.ret.value, Zero)
         /\ call.ret.value = Zero <=> AllIdentical(data)

----------------------------------------------------------------------------
(* Properties of repeated calls (under SpecRepeat) *)

----------------------------------------------------------------------------
(* Properties of the variance (under Spec) *)

\* C29: calculateVariance divides the sum of squared deviations by n for
\* 'population' and for no type, and by n - 1 for 'sample'; for one value
\* and 'sample' it returns 0/0 = NaN without throwing, while
\* calculateStandardDeviation returns 0 for the same input
C29_VarianceDivisor ==
  LET n == Len(data)
      mean == Div(Sum(data), Num(n))
      deviations == Sum(Map(data, LAMBDA x : Mul(Sub(x, mean), Sub(x, mean))))
  IN  /\ (call.fn = "calculateVariance" /\ n > 0) =>
           call.ret = Return(Div(deviations,
                                 Num(IF call.args = "sample" THEN n - 1 ELSE n)))
      /\ (call.fn = "calculateVariance" /\ n = 1 /\ call.args = "sample") =>
           call.ret = Return(NaN)
      /\ (call.fn = "calculateStandardDeviation" /\ n = 1 /\ call.args = "sample") =>
           call.ret = Return(Zero)

C29_Witness ==
  /\ call.fn = "calculateVariance"
  /\ call.args = "sample"
  /\ data = singleValue
  /\ call.ret = Return(NaN)

----------------------------------------------------------------------------
(* The state container useStatsState, in its two definitions *)

\* null
Null == <<>>
\* a value that is not null
Some(v) == <<v>>

\* the two definitions of useStatsState in the file
Definitions == {1, 2}

initialState(definition) ==
  [data |-> <<>>,
   statistics |-> Null,
   isLoading |-> FALSE,
   error |-> Null,
   visualizationParams |->
     IF definition = 1
       THEN [bins |-> 10, removeOutliers |-> FALSE, outlierMethod |-> "iqr"]
       ELSE [bins |-> 10, bandwidth |-> DefaultBandwidth,
             removeOutliers |-> FALSE, outlierMethod |-> "iqr"]]

\* { removeOutliers, outlierMethod } as cleanDataset reads it
cleaningOptions(params) ==
  [DefaultOptions EXCEPT !.removeOutliers = params.removeOutliers,
                         !.outlierMethod = params.outlierMethod]

\* { ...prev.visualizationParams, ...params }
Merge(prev, params) ==
  [key \in DOMAIN prev \cup DOMAIN params |->
     IF key \in DOMAIN params THEN params[key] ELSE prev[key]]

\* the arrays handed to setData: those of the tests of the hook, and
\* arrays with outliers, with a mean of zero and without spread
HookData ==
  {<<>>, Nums(<<1, 2, 3>>), cleanData, dataWithOutliers,
   <<Num(1), Num(2), NaN, Num(4), Num(5)>>, <<Num(1), PosInf>>,
   zeroMean, identicalValues,
   Nums(<<1, 1, 1, 1, 2, 100>>), Nums(<<-1, 0, 0, 1, 100>>),
   Nums(<<-2, -2, -2, -2, 8>>)}

\* the options the hook can hand to cleanDataset
HookOptions ==
  {cleaningOptions([removeOutliers |-> removeOutliers, outlierMethod |-> outlierMethod]) :
     removeOutliers \in BOOLEAN, outlierMethod \in {"iqr", "zscore"}}

\* the arrays the hook can hold or clean: those handed to setData and
\* what cleanDataset makes of them, however often it is applied
RECURSIVE CleanedArrays(_)
CleanedArrays(arrays) ==
  LET more == arrays \cup {cleanDataset(d, options) : d \in arrays, options \in HookOptions}
  IN  IF more = arrays THEN arrays ELSE CleanedArrays(more)

HookArrays == CleanedArrays(HookData)

\* what cleanDataset and calculateDescriptiveStats return for each array
\* the hook can hold
EngineResults ==
  [cleanDataset |->
     [d \in HookArrays, options \in HookOptions |-> cleanDataset(d, options)],
   calculateDescriptiveStats |->
     [d \in HookArrays |-> calculateDescriptiveStats(d, "undefined")]]

\* cleanDataset and calculateDescriptiveStats as the hook calls them: the
\* results are computed once, when the hook is mounted, and kept in history
cleanedDataOf == history.cleanDataset

statisticsOf == history.calculateDescriptiveStats

\* setData that leaves the error of the state in place when it stores data
setDataKeepsError(definition, s, d) ==
  LET hasInvalidValues == \E i \in 1..Len(d) : isNaN(d[i]) \/ ~isFinite(d[i])
      cleanedData ==
        IF definition = 1 THEN cleanedDataOf[d, DefaultOptions]
        ELSE cleanedDataOf[d, cleaningOptions(s.visualizationParams)]
      statistics == statisticsOf[cleanedData]
  IN  IF hasInvalidValues
        THEN [s EXCEPT !.error = Some(<<"Invalid numeric values detected">>),
                       !.isLoading = FALSE]
      ELSE IF Len(d) = 0
        THEN [s EXCEPT !.data = <<>>, !.statistics = Null,
                       !.isLoading = FALSE, !.error = Null]
      ELSE IF statistics.threw
        THEN [s EXCEPT !.error = Some(statistics.error), !.isLoading = FALSE]
      ELSE [s EXCEPT !.data = cleanedData, !.statistics = Some(statistics.value),
                     !.isLoading = FALSE]

\* setData that takes an array with an infinite value for valid
setDataAcceptsInfinity(definition, s, d) ==
  LET hasInvalidValues == \E i \in 1..Len(d) : isNaN(d[i])
      cleanedData ==
        IF definition = 1 THEN cleanedDataOf[d, DefaultOptions]
        ELSE cleanedDataOf[d, cleaningOptions(s.visualizationParams)]
      statistics == statisticsOf[cleanedData]
  IN  IF hasInvalidValues
        THEN [s EXCEPT !.error = Some(<<"Invalid numeric values detected">>),
                       !.isLoading = FALSE]
      ELSE IF Len(d) = 0
        THEN [s EXCEPT !.data = <<>>, !.statistics = Null,
                       !.isLoading = FALSE, !.error = Null]
      ELSE IF statistics.threw
        THEN [s EXCEPT !.error = Some(statistics.error), !.isLoading = FALSE]
      ELSE [s EXCEPT !.data = cleanedData, !.statistics = Some(statistics.value),
                     !.isLoading = FALSE, !.error = Null]

\* setData whose catch block leaves isLoading as the first setState set it
setDataStaysLoading(definition, s, d) ==
  LET hasInvalidValues == \E i \in 1..Len(d) : isNaN(d[i]) \/ ~isFinite(d[i])
      cleanedData ==
        IF definition = 1 THEN cleanedDataOf[d, DefaultOptions]
        ELSE cleanedDataOf[d, cleaningOptions(s.visualizationParams)]
      statistics == statisticsOf[cleanedData]
  IN  IF hasInvalidValues
        THEN [s EXCEPT !.error = Some(<<"Invalid numeric values detected">>),
                       !.isLoading = TRUE]
      ELSE IF Len(d) = 0
        THEN [s EXCEPT !.data = <<>>, !.statistics = Null,
                       !.isLoading = FALSE, !.error = Null]
      ELSE IF statistics.threw
        THEN [s EXCEPT !.error = Some(statistics.error), !.isLoading = TRUE]
      ELSE [s EXCEPT !.data = cleanedData, !.statistics = Some(statistics.value),
                     !.isLoading = FALSE, !.error = Null]

\* setData that cleans with the options of the state in either definition
setDataRemovesOutliers(definition, s, d) ==
  LET hasInvalidValues == \E i \in 1..Len(d) : isNaN(d[i]) \/ ~isFinite(d[i])
      cleanedData == cleanedDataOf[d, cleaningOptions(s.visualizationParams)]
      statistics == statisticsOf[cleanedData]
  IN  IF hasInvalidValues
        THEN [s EXCEPT !.error = Some(<<"Invalid numeric values detected">>),
                       !.isLoading = FALSE]
      ELSE IF Len(d) = 0
        THEN [s EXCEPT !.data = <<>>, !.statistics = Null,
                       !.isLoading = FALSE, !.error = Null]
      ELSE IF statistics.threw
        THEN [s EXCEPT !.error = Some(statistics.error), !.isLoading = FALSE]
      ELSE [s EXCEPT !.data = cleanedData, !.statistics = Some(statistics.value),
                     !.isLoading = FALSE, !.error = Null]

\* setData, from its first setState to the one that ends it
setData(definition, s, d) ==
  LET hasInvalidValues == \E i \in 1..Len(d) : isNaN(d[i]) \/ ~isFinite(d[i])
      cleanedData ==
        IF definition = 1 THEN cleanedDataOf[d, DefaultOptions]
        ELSE cleanedDataOf[d, cleaningOptions(s.visualizationParams)]
      statistics == statisticsOf[cleanedData]
  IN  IF hasInvalidValues
        THEN [s EXCEPT !.error = Some(<<"Invalid numeric values detected">>),
                       !.isLoading = FALSE]
      ELSE IF Len(d) = 0
        THEN [s EXCEPT !.data = <<>>, !.statistics = Null,
                       !.isLoading = FALSE, !.error = Null]
      ELSE IF statistics.threw
        THEN [s EXCEPT !.error = Some(statistics.error), !.isLoading = FALSE]
      ELSE [s EXCEPT !.data = cleanedData, !.statistics = Some(statistics.value),
                     !.isLoading = FALSE, !.error = Null]

\* whether setData(d) ends with the setState that stores a new array
StoresData(definition, s, d) ==
  /\ \A i \in 1..Len(d) : isFinite(d[i])
  /\ \/ Len(d) = 0
     \/ ~statisticsOf[IF definition = 1 THEN cleanedDataOf[d, DefaultOptions]
                      ELSE cleanedDataOf[d, cleaningOptions(s.visualizationParams)]].threw

setLoading(s, isLoading) == [s EXCEPT !.isLoading = isLoading]

setError(s, error) == [s EXCEPT !.error = error]

setVisualizationParams(s, params) ==
  [s EXCEPT !.visualizationParams = Merge(@, params)]

\* the effect without the data of its setState, in either definition
RecalculateStatisticsOnly(definition, s) ==
  IF Len(s.data) > 0
    THEN LET cleanedData == cleanedDataOf[s.data, cleaningOptions(s.visualizationParams)]
             statistics == statisticsOf[cleanedData]
         IN  IF Len(cleanedData) = 0 THEN s
             ELSE IF statistics.threw THEN [s EXCEPT !.error = Some(statistics.error)]
             ELSE [s EXCEPT !.statistics = Some(statistics.value)]
    ELSE s

\* the body of the effect that recalculates the statistics
Recalculate(definition, s) ==
  IF Len(s.data) > 0
    THEN LET cleanedData == cleanedDataOf[s.data, cleaningOptions(s.visualizationParams)]
             statistics == statisticsOf[cleanedData]
         IN  IF Len(cleanedData) = 0 THEN s
             ELSE IF statistics.threw THEN [s EXCEPT !.error = Some(statistics.error)]
             ELSE IF definition = 1
               THEN [s EXCEPT !.statistics = Some(statistics.value), !.data = cleanedData]
             ELSE [s EXCEPT !.statistics = Some(statistics.value)]
    ELSE s

\* an effect with an empty dependency array: it runs on mount only
EffectRunsOnMountOnly(definition, old, new, newParams, newData) == FALSE

\* whether the effect runs after the render that follows a call: one of
\* its dependencies differs from the render before.  The first definition
\* depends on removeOutliers and outlierMethod, the second on the
\* visualizationParams object and the data array.
EffectRuns(definition, old, new, newParams, newData) ==
  IF definition = 1
    THEN \/ old.visualizationParams.removeOutliers # new.visualizationParams.removeOutliers
         \/ old.visualizationParams.outlierMethod # new.visualizationParams.outlierMethod
    ELSE newParams \/ newData

\* the state when the renders after a call have settled
Rendered(definition, old, new, newParams, newData) ==
  IF EffectRuns(definition, old, new, newParams, newData)
    THEN Recalculate(definition, new)
    ELSE new

\* the partial parameters handed to setVisualizationParams
ParamChanges ==
  <<[removeOutliers |-> TRUE], [removeOutliers |-> FALSE],
    [outlierMethod |-> "zscore"], [outlierMethod |-> "iqr"],
    [bins |-> 20]>>

\* the messages handed to setError
ErrorInputs == {Null, Some(<<"Test error">>)}

\* one call of the hook's API, the render after it and the effect run
Step(fn, args, new, newParams, newData) ==
  /\ state' = [state EXCEPT !.current =
                 Rendered(state.definition, state.current, new, newParams, newData)]
  /\ before' = state.current
  /\ call' = [fn |-> fn, args |-> args, ret |-> <<>>]
  /\ UNCHANGED <<input, data, history>>

SetData ==
  \E d \in HookData :
    Step("setData", <<d>>, setData(state.definition, state.current, d), FALSE,
         StoresData(state.definition, state.current, d))

SetLoading ==
  \E isLoading \in BOOLEAN :
    Step("setLoading", <<isLoading>>, setLoading(state.current, isLoading), FALSE, FALSE)

SetError ==
  \E error \in ErrorInputs :
    Step("setError", <<error>>, setError(state.current, error), FALSE, FALSE)

SetVisualizationParams ==
  \E i \in 1..Len(ParamChanges) :
    Step("setVisualizationParams", <<ParamChanges[i]>>,
         setVisualizationParams(state.current, ParamChanges[i]), TRUE, FALSE)

Reset ==
  Step("reset", <<>>, initialState(state.definition), TRUE, TRUE)

InitHook ==
  /\ input = <<>> /\ data = <<>>
  /\ history = EngineResults
  /\ call = NoCall
  /\ \E definition \in Definitions :
       /\ state = [definition |-> definition, current |-> initialState(definition)]
       /\ before = initialState(definition)

NextHook ==
  \/ SetData
  \/ SetLoading
  \/ SetError
  \/ SetVisualizationParams
  \/ Reset

SpecHook == InitHook /\ [][NextHook]_vars

----------------------------------------------------------------------------
(* Properties of useStatsState *)

\* the array handed to the last call of setData
Handed == call.args[1]

MeanIsZero(d) == Len(d) > 0 /\ StrictEq(calculateMean(d).value, Zero)

\* C21: setData(d) with a non-empty array of finite values whose mean is
\* not zero, while removeOutliers is off, ends with data = d, statistics =
\* calculateDescriptiveStats(d), error null and isLoading false, whatever
\* the state before; setData([]) ends with data [], statistics null and
\* error null.
C21_SetDataStoresDataAndStatistics ==
  call.fn = "setData" =>
    /\ (/\ Len(Handed) > 0
        /\ AllFinite(Handed)
        /\ ~MeanIsZero(Handed)
        /\ ~before.visualizationParams.removeOutliers) =>
          /\ state.current.data = Handed
          /\ state.current.statistics =
               Some(calculateDescriptiveStats(Handed, "undefined").value)
          /\ state.current.error = Null
          /\ state.current.isLoading = FALSE
    /\ Len(Handed) = 0 =>
          /\ state.current.data = <<>>
          /\ state.current.statistics = Null
          /\ state.current.error = Null

\* setData([1,2,3,4,5,100]) on a state that was loading, had an error and
\* held other data
C21_Witness ==
  /\ call.fn = "setData"
  /\ Handed = dataWithOutliers
  /\ ~before.visualizationParams.removeOutliers
  /\ before.isLoading
  /\ before.error # Null
  /\ before.data = cleanData
  /\ state.current.data = dataWithOutliers
  /\ state.current.error = Null

\* C22: setData(d) with a d that holds NaN, Infinity or -Infinity is
\* rejected: error is 'Invalid numeric values detected', isLoading is
\* false, and data, statistics and visualizationParams are those of the
\* state before.
C22_InvalidValuesAreRejected ==
  (call.fn = "setData" /\ ~AllFinite(Handed)) =>
    /\ state.current.error = Some(<<"Invalid numeric values detected">>)
    /\ state.current.isLoading = FALSE
    /\ state.current.data = before.data
    /\ state.current.statistics = before.statistics
    /\ state.current.visualizationParams = before.visualizationParams

\* setData([1, Infinity]) on a loading state that holds [1,2,3,4,5] with
\* removeOutliers on
C22_Witness ==
  /\ call.fn = "setData"
  /\ Handed = <<Num(1), PosInf>>
  /\ before.isLoading
  /\ before.data = cleanData
  /\ before.visualizationParams.removeOutliers
  /\ state.current.data = cleanData
  /\ state.current.error = Some(<<"Invalid numeric values detected">>)

C25_StatisticsMatchData ==
  state.definition = 1 =>
    /\ (state.current.statistics = Null) <=> (Len(state.current.data) = 0)
    /\ state.current.statistics # Null =>
         state.current.statistics[1].count = Len(state.current.data)

\* the effect has removed the outlier of [1,2,3,4,5,100] on a state with
\* an error
C25_Witness ==
  /\ state.definition = 1
  /\ call.fn = "setVisualizationParams"
  /\ before.data = dataWithOutliers
  /\ state.current.error = Some(<<"Test error">>)
  /\ state.current.visualizationParams.removeOutliers
  /\ state.current.data = cleanData
  /\ state.current.statistics # Null
  /\ state.current.statistics[1].count = 5

\* the last call was setVisualizationParams with removeOutliers: true, on a
\* state where it was off
EnabledRemoval ==
  /\ call.fn = "setVisualizationParams"
  /\ "removeOutliers" \in DOMAIN call.args[1]
  /\ call.args[1].removeOutliers
  /\ ~before.visualizationParams.removeOutliers

\* what cleanDataset makes of the data held before the last call, under
\* the options held after it
Filtered == cleanDataset(before.data, cleaningOptions(state.current.visualizationParams))

ChangedCleaning ==
  /\ call.fn = "setVisualizationParams"
  /\ \/ before.visualizationParams.removeOutliers #
          state.current.visualizationParams.removeOutliers
     \/ before.visualizationParams.outlierMethod #
          state.current.visualizationParams.outlierMethod
  /\ Len(before.data) > 0

C27_OutliersRemovedOnce ==
  (/\ state.definition = 2
   /\ call.fn = "setData"
   /\ before.visualizationParams.removeOutliers
   /\ StoresData(2, before, Handed)
   /\ Len(Handed) > 0) =>
    /\ state.current.statistics =
         Some(calculateDescriptiveStats(
                cleanDataset(Handed, cleaningOptions(before.visualizationParams)),
                "undefined").value)
    /\ state.current.statistics[1].count = Len(state.current.data)

----------------------------------------------------------------------------
(* copyToClipboard.  The browser is a record: whether navigator.clipboard  *)
(* and window.isSecureContext are there, how writeText settles, whether    *)
(* the device is an iOS one, what document.execCommand('copy') does, and   *)
(* what window.prompt does.                                                *)

Browsers ==
  [clipboard : BOOLEAN,
   isSecureContext : BOOLEAN,
   writeText : {"resolves", "rejects"},
   iOS : BOOLEAN,
   execCommand : {"true", "false", "throws"},
   prompt : {"absent", "text", "null", "undefined", "throws"}]

isIOS(browser) == browser.iOS

\* document.execCommand('copy') on the selected textarea; the finally
\* block removes the textarea whatever happens
copyToClipboardIOS(browser) ==
  IF browser.execCommand = "throws" THEN Throw(<<"execCommand">>)
  ELSE Return(browser.execCommand = "true")

copyToClipboardFallback(browser) ==
  IF browser.execCommand = "throws" THEN Throw(<<"execCommand">>)
  ELSE Return(browser.execCommand = "true")

\* the promise of copyToClipboard resolved with a value
Resolved(s, value) == [s EXCEPT !.pc = "resolved", !.result = Some(value)]

\* the catch block, up to its call of window.prompt
Caught(s) ==
  IF s.browser.prompt # "absent" THEN [s EXCEPT !.pc = "prompt"]
  ELSE Resolved(s, FALSE)

\* copyToClipboard(text), up to its await or its return
CopyToClipboard ==
  /\ state.pc = "called"
  /\ state' =
       IF state.browser.clipboard /\ state.browser.isSecureContext
         THEN [state EXCEPT !.pc = "writeText"]
       ELSE LET copied == IF isIOS(state.browser)
                            THEN copyToClipboardIOS(state.browser)
                            ELSE copyToClipboardFallback(state.browser)
            IN  IF copied.threw THEN Caught(state)
                ELSE Resolved(state, copied.value)
  /\ UNCHANGED <<input, data, call, history, before>>

\* the promise of navigator.clipboard.writeText settles
WriteTextSettles ==
  /\ state.pc = "writeText"
  /\ state' = IF state.browser.writeText = "resolves" THEN Resolved(state, TRUE)
              ELSE Caught(state)
  /\ UNCHANGED <<input, data, call, history, before>>

\* window.prompt returns or throws: result !== null
PromptReturns ==
  /\ state.pc = "prompt"
  /\ state' = IF state.browser.prompt = "throws" THEN Resolved(state, FALSE)
              ELSE Resolved(state, state.browser.prompt # "null")
  /\ UNCHANGED <<input, data, call, history, before>>

InitClipboard ==
  /\ input = <<>> /\ data = <<>> /\ history = <<>>
  /\ call = NoCall /\ before = <<>>
  /\ \E browser \in Browsers :
       state = [browser |-> browser, pc |-> "called", result |-> Null]

NextClipboard ==
  \/ CopyToClipboard
  \/ WriteTextSettles
  \/ PromptReturns

SpecClipboard == InitClipboard /\ [][NextClipboard]_vars

\* the clipboard API was used and its write failed
WriteTextFailed ==
  /\ state.browser.clipboard
  /\ state.browser.isSecureContext
  /\ state.browser.writeText = "rejects"

\* one of the copy methods reported that the text was copied: writeText
\* resolved, execCommand returned true, or the user confirmed the prompt
\* that the catch block shows
CopySucceeded ==
  LET modern == state.browser.clipboard /\ state.browser.isSecureContext
  IN  \/ modern /\ state.browser.writeText = "resolves"
      \/ ~modern /\ state.browser.execCommand = "true"
      \/ /\ state.browser.prompt = "text"
         /\ \/ modern /\ state.browser.writeText = "rejects"
            \/ ~modern /\ state.browser.execCommand = "throws"

\* C24: copyToClipboard resolves to false when navigator.clipboard.writeText
\* fails, resolves to true only when a copy method succeeded, and never
\* rejects.
C24_ClipboardResult ==
  /\ state.pc \in {"called", "writeText", "prompt", "resolved"}
  /\ state.pc = "resolved" =>
       /\ WriteTextFailed => state.result = Some(FALSE)
       /\ state.result = Some(TRUE) => CopySucceeded

----------------------------------------------------------------------------
(* useMobileOptimized: the resize and orientationchange listeners.  The    *)
(* state is the window's size, the capabilities held by the hook, the flag *)
(* of the throttle and the number of delayed updates that are pending.     *)
(* The five capabilities read from the device (isTouch, isIOS, isAndroid,  *)
(* hasNotch, hasHaptics) do not depend on the window and are left out.     *)

\* the updates an orientationchange can have pending
MaxPending == 2

\* innerWidth and innerHeight of the window
Windows == {320, 414, 768, 1024} \X {400, 900}

\* what updateCapabilities hands to setCapabilities
updateCapabilities(s) ==
  LET width == s.window[1]
      screenSize == IF width <= 320 THEN "small"
                    ELSE IF width <= 414 THEN "medium"
                    ELSE IF width <= 768 THEN "large"
                    ELSE "tablet"
  IN  [s EXCEPT !.capabilities =
         [screenSize |-> screenSize,
          orientation |-> IF s.window[2] > s.window[1] THEN "portrait"
                          ELSE "landscape"]]

\* the timer of the throttle that also calls func when it expires
throttleTimeoutReplays(s) == updateCapabilities([s EXCEPT !.inThrottle = FALSE])

\* the timer of the throttle: () => (inThrottle = false)
throttleTimeout(s) == [s EXCEPT !.inThrottle = FALSE]

\* the function throttle(updateCapabilities, 150) returns
handleResize(s) ==
  IF ~s.inThrottle THEN [updateCapabilities(s) EXCEPT !.inThrottle = TRUE]
  ELSE s

\* setTimeout(updateCapabilities, 100)
handleOrientationChange(s) == [s EXCEPT !.pending = @ + 1]

\* one step of the hook: what happened, and the state before it
Event(fn, new) ==
  /\ state' = new
  /\ before' = state
  /\ call' = [fn |-> fn, args |-> <<>>, ret |-> <<>>]
  /\ UNCHANGED <<input, data, history>>

\* the window takes another size and its resize event is dispatched
Resize ==
  \E window \in Windows \ {state.window} :
    Event("resize", handleResize([state EXCEPT !.window = window]))

\* the 150 ms timer of the throttle expires
ThrottleTimeout ==
  /\ state.inThrottle
  /\ Event("throttleTimeout", throttleTimeout(state))

\* the device is turned: the window takes another size and an
\* orientationchange event is dispatched
OrientationChange ==
  /\ state.pending < MaxPending
  /\ \E window \in Windows \ {state.window} :
       Event("orientationchange",
             handleOrientationChange([state EXCEPT !.window = window]))

\* a 100 ms timer of handleOrientationChange expires
OrientationTimeout ==
  /\ state.pending > 0
  /\ Event("orientationTimeout", updateCapabilities([state EXCEPT !.pending = @ - 1]))

\* the hook is mounted: the effect has called updateCapabilities once
InitMobile ==
  /\ input = <<>> /\ data = <<>> /\ history = <<>>
  /\ call = NoCall
  /\ \E window \in Windows :
       state = updateCapabilities(
                 [window |-> window,
                  capabilities |-> [screenSize |-> "medium", orientation |-> "portrait"],
                  inThrottle |-> FALSE,
                  pending |-> 0])
  /\ before = state

NextMobile ==
  \/ Resize
  \/ ThrottleTimeout
  \/ OrientationChange
  \/ OrientationTimeout

SpecMobile == InitMobile /\ [][NextMobile]_vars

\* the capabilities of the window as it is now
Current == updateCapabilities(state).capabilities

\* C30: resize events go through throttle(updateCapabilities, 150).  A
\* resize event that arrives while the timer is not running updates the
\* capabilities at once; one that arrives while it runs is dropped, and
\* the expiry of the timer does not replay it.  So the capabilities change
\* only when an event is handled: after a burst they stay those of the
\* last handled event until a resize event arrives with the timer expired
\* (or the delayed update of an orientationchange runs).
C30_ThrottleDropsWithoutReplay ==
  /\ (call.fn = "resize" /\ ~before.inThrottle) =>
       state.capabilities = Current /\ state.inThrottle
  /\ (call.fn = "resize" /\ before.inThrottle) =>
       state.capabilities = before.capabilities /\ state.inThrottle
  /\ call.fn = "throttleTimeout" =>
       state.capabilities = before.capabilities /\ ~state.inThrottle
  /\ (call.fn \in {"resize", "throttleTimeout", "orientationchange", "orientationTimeout"}
        /\ state.capabilities # before.capabilities) =>
       \/ call.fn = "resize" /\ ~before.inThrottle
       \/ call.fn = "orientationTimeout"

\* the burst is over and the timer has expired: the capabilities are still
\* those of a window that is gone, and nothing is pending
C30_Witness ==
  /\ call.fn = "throttleTimeout"
  /\ ~state.inThrottle
  /\ state.pending = 0
  /\ state.window = <<1024, 400>>
  /\ state.capabilities = [screenSize |-> "small", orientation |-> "portrait"]

====
